---------------------------- MODULE Spec2Model ----------------------------
(***************************************************************************)
(* A model of the WebMCP kanban board: the reducer-driven board store      *)
(* (store.jsx), the eight tool handlers that read stateRef.current and     *)
(* dispatch (WebMCPTools.jsx), and the two UI gestures that dispatch       *)
(* (Column.handleDrop, AddCardForm.handleSubmit).                          *)
(*                                                                         *)
(* React is modelled by what the hooks used in the source do: dispatch     *)
(* appends an action to the reducer's update queue; a later render folds   *)
(* boardReducer over the queue and commits the new state; the passive      *)
(* effects registered with useEffect (stateRef.current = state, and        *)
(* localStorage.setItem) run after the commit.  When the render and the    *)
(* effects run relative to the next incoming call is the host's choice,    *)
(* so Render and FlushPassiveEffects are separate steps.                   *)
(***************************************************************************)
EXTENDS Integers, Sequences, FiniteSets, TLC

VARIABLES
    state,      \* the committed reducer state of BoardProvider (useReducer)
    queue,      \* actions dispatched and not yet reduced
    stateRef,   \* stateRef.current of WebMCPTools
    storage,    \* localStorage item under STORAGE_KEY
    passive,    \* TRUE when a commit's passive effects have not run yet
    now,        \* the clock read by new Date()
    uuids,      \* how many ids crypto.randomUUID() has handed out
    last,       \* the most recent operation: name, arguments, result, dispatch
    prev,       \* a summary of the operation before it
    reduced,    \* the most recent reducer step: action, cards before and after
    nops        \* number of operations invoked so far

vars == <<state, queue, stateRef, storage, passive, now, uuids, last, prev, reduced, nops>>

(***************************************************************************)
(* Bounds of the model.                                                    *)
(***************************************************************************)
MaxOps == 2
MaxQueue == 2
MaxUuid == 1
MaxClock == 2

(***************************************************************************)
(* Program constants.                                                      *)
(***************************************************************************)
STORAGE_KEY == "webmcp-kanban-board"

\* The seed board, abridged to three of its eight cards (seed-5, seed-6,
\* seed-7); createdAt is a clock value instead of an ISO string.
SEED_CARDS ==
    << [id |-> "seed-5", title |-> "Add drag-and-drop between columns",
        description |-> "Implement native HTML5 DnD with visual feedback on drag over.",
        priority |-> "high", labels |-> <<"ux", "dnd">>, column |-> "todo",
        createdAt |-> 0],
       [id |-> "seed-6", title |-> "Write blog posts",
        description |-> "Three blog posts explaining WebMCP.",
        priority |-> "medium", labels |-> <<"docs", "blog">>, column |-> "todo",
        createdAt |-> 0],
       [id |-> "seed-7", title |-> "Add card editing UI",
        description |-> "Click on a card to open an edit modal.",
        priority |-> "low", labels |-> <<"ux">>, column |-> "backlog",
        createdAt |-> 0] >>

INITIAL_STATE ==
    [columns |-> <<"backlog", "todo", "in-progress", "done">>,
     columnMeta |-> [backlog |-> [title |-> "Backlog", color |-> "#6B7280"],
                     todo |-> [title |-> "To Do", color |-> "#3B82F6"],
                     \* the key 'in-progress'
                     in_progress |-> [title |-> "In Progress", color |-> "#F59E0B"],
                     done |-> [title |-> "Done", color |-> "#10B981"]],
     cards |-> SEED_CARDS]

columnEnum == {"backlog", "todo", "in-progress", "done"}
priorityEnum == {"low", "medium", "high", "critical"}
priorityOrder == [critical |-> 0, high |-> 1, medium |-> 2, low |-> 3]

\* s.columnMeta[colId]
MetaOf(s, colId) == s.columnMeta[IF colId = "in-progress" THEN "in_progress" ELSE colId]

(***************************************************************************)
(* JavaScript helpers.                                                     *)
(***************************************************************************)
Has(obj, key) == key \in DOMAIN obj

\* obj.key || dflt, for a string field: undefined and '' are falsy
OrString(obj, key, dflt) == IF Has(obj, key) /\ obj[key] # "" THEN obj[key] ELSE dflt

\* obj.key || dflt, for an array field: only undefined is falsy
OrArray(obj, key, dflt) == IF Has(obj, key) THEN obj[key] ELSE dflt

Includes(seq, x) == \E i \in 1..Len(seq) : seq[i] = x

Undefined == [undefined |-> TRUE]

\* cards.find(c => c.id === id)
Find(cards, id) ==
    IF \E i \in 1..Len(cards) : cards[i].id = id
    THEN cards[CHOOSE i \in 1..Len(cards) :
                  /\ cards[i].id = id
                  /\ \A j \in 1..(i - 1) : cards[j].id # id]
    ELSE Undefined

\* cards.filter(c => c.column === column)
InColumn(cards, column) == SelectSeq(cards, LAMBDA c : c.column = column)

\* cards.map(c => c.id)
Ids(cards) == [i \in 1..Len(cards) |-> cards[i].id]

\* crypto.randomUUID(): the k-th id handed out; ids never repeat
randomUUID(k) == "uuid-" \o ToString(k)

AllIds == {SEED_CARDS[i].id : i \in 1..Len(SEED_CARDS)} \cup {randomUUID(k) : k \in 1..MaxUuid}

(***************************************************************************)
(* store.jsx: the reducer.  uuid is the id crypto.randomUUID() returns if  *)
(* the reducer calls it, time is what new Date() returns.                  *)
(***************************************************************************)
\* ADD_CARD putting the new card first, [newCard, ...state.cards]
ADD_CARD_Prepend(st, payload, uuid, time) ==
    LET newCard == [id |-> OrString(payload, "id", uuid),
                    title |-> payload.title,
                    description |-> OrString(payload, "description", ""),
                    priority |-> OrString(payload, "priority", "medium"),
                    labels |-> OrArray(payload, "labels", <<>>),
                    column |-> OrString(payload, "column", "backlog"),
                    createdAt |-> time]
    IN  [st EXCEPT !.cards = <<newCard>> \o st.cards]

ADD_CARD(st, payload, uuid, time) ==
    LET newCard == [id |-> OrString(payload, "id", uuid),
                    title |-> payload.title,
                    description |-> OrString(payload, "description", ""),
                    priority |-> OrString(payload, "priority", "medium"),
                    labels |-> OrArray(payload, "labels", <<>>),
                    column |-> OrString(payload, "column", "backlog"),
                    createdAt |-> time]
    IN  [st EXCEPT !.cards = Append(st.cards, newCard)]

\* MOVE_CARD taking the card out and appending it with the new column
MOVE_CARD_ToEnd(st, payload) ==
    LET moved == SelectSeq(st.cards, LAMBDA c : c.id = payload.cardId)
    IN  [st EXCEPT !.cards =
            SelectSeq(st.cards, LAMBDA c : c.id # payload.cardId)
            \o [i \in 1..Len(moved) |-> [moved[i] EXCEPT !.column = payload.toColumn]]]

\* MOVE_CARD writing the wrong payload field into column
MOVE_CARD_WrongField(st, payload) ==
    [st EXCEPT !.cards =
        [i \in 1..Len(st.cards) |->
            IF st.cards[i].id = payload.cardId
            THEN [st.cards[i] EXCEPT !.column = payload.cardId]
            ELSE st.cards[i]]]

MOVE_CARD(st, payload) ==
    [st EXCEPT !.cards =
        [i \in 1..Len(st.cards) |->
            IF st.cards[i].id = payload.cardId
            THEN [st.cards[i] EXCEPT !.column = payload.toColumn]
            ELSE st.cards[i]]]

\* UPDATE_CARD adding the supplied labels to the card's labels
UPDATE_CARD_AppendLabels(st, payload) ==
    [st EXCEPT !.cards =
        [i \in 1..Len(st.cards) |->
            IF st.cards[i].id = payload.cardId
            THEN IF Has(payload.updates, "labels")
                 THEN [labels |-> st.cards[i].labels \o payload.updates.labels]
                         @@ payload.updates @@ st.cards[i]
                 ELSE payload.updates @@ st.cards[i]
            ELSE st.cards[i]]]

\* UPDATE_CARD spreading in the wrong order, { ...updates, ...card }
UPDATE_CARD_CardWins(st, payload) ==
    [st EXCEPT !.cards =
        [i \in 1..Len(st.cards) |->
            IF st.cards[i].id = payload.cardId
            THEN st.cards[i] @@ payload.updates
            ELSE st.cards[i]]]

\* { ...card, ...updates }: the keys of updates win
UPDATE_CARD(st, payload) ==
    [st EXCEPT !.cards =
        [i \in 1..Len(st.cards) |->
            IF st.cards[i].id = payload.cardId
            THEN payload.updates @@ st.cards[i]
            ELSE st.cards[i]]]

\* DELETE_CARD by position, cards.splice(cards.findIndex(...), 1): with no
\* match findIndex is -1 and splice removes the last card
DELETE_CARD_Splice(st, payload) ==
    LET n == Len(st.cards)
        at == IF \E i \in 1..n : st.cards[i].id = payload.cardId
              THEN CHOOSE i \in 1..n :
                      /\ st.cards[i].id = payload.cardId
                      /\ \A j \in 1..(i - 1) : st.cards[j].id # payload.cardId
              ELSE n
    IN  [st EXCEPT !.cards = SubSeq(st.cards, 1, at - 1) \o SubSeq(st.cards, at + 1, n)]

DELETE_CARD(st, payload) ==
    [st EXCEPT !.cards = SelectSeq(st.cards, LAMBDA card : card.id # payload.cardId)]

ADD_LABEL(st, payload) ==
    [st EXCEPT !.cards =
        [i \in 1..Len(st.cards) |->
            IF st.cards[i].id # payload.cardId THEN st.cards[i]
            ELSE IF Includes(st.cards[i].labels, payload.label) THEN st.cards[i]
            ELSE [st.cards[i] EXCEPT !.labels = Append(@, payload.label)]]]

\* REORDER_COLUMN also moving the column itself behind the other columns
REORDER_COLUMN_Columns(st, payload) ==
    LET otherCards == SelectSeq(st.cards, LAMBDA c : c.column # payload.column)
        found == [i \in 1..Len(payload.cardIds) |-> Find(st.cards, payload.cardIds[i])]
        reorderedCards == SelectSeq(found, LAMBDA c : c # Undefined)
    IN  [st EXCEPT !.cards = otherCards \o reorderedCards,
                   !.columns = SelectSeq(st.columns, LAMBDA k : k # payload.column)
                                  \o <<payload.column>>]

REORDER_COLUMN(st, payload) ==
    LET otherCards == SelectSeq(st.cards, LAMBDA c : c.column # payload.column)
        found == [i \in 1..Len(payload.cardIds) |-> Find(st.cards, payload.cardIds[i])]
        reorderedCards == SelectSeq(found, LAMBDA c : c # Undefined)
    IN  [st EXCEPT !.cards = otherCards \o reorderedCards]

\* LOAD_BOARD keeping the cards already there ahead of the loaded ones
LOAD_BOARD_Append(st, payload) == [st EXCEPT !.cards = st.cards \o payload.cards]

LOAD_BOARD(st, payload) == [st EXCEPT !.cards = payload.cards]

\* the reducer stamping a moved card with the time of the move
boardReducer_Restamp(st, action, uuid, time) ==
    CASE action.type = "LOAD_BOARD" -> LOAD_BOARD(st, action.payload)
      [] action.type = "ADD_CARD" -> ADD_CARD(st, action.payload, uuid, time)
      [] action.type = "MOVE_CARD" ->
            [st EXCEPT !.cards =
                [i \in 1..Len(st.cards) |->
                    IF st.cards[i].id = action.payload.cardId
                    THEN [st.cards[i] EXCEPT !.column = action.payload.toColumn,
                                             !.createdAt = time]
                    ELSE st.cards[i]]]
      [] action.type = "UPDATE_CARD" -> UPDATE_CARD(st, action.payload)
      [] action.type = "DELETE_CARD" -> DELETE_CARD(st, action.payload)
      [] action.type = "ADD_LABEL" -> ADD_LABEL(st, action.payload)
      [] action.type = "REORDER_COLUMN" -> REORDER_COLUMN(st, action.payload)
      [] OTHER -> st

boardReducer(st, action, uuid, time) ==
    CASE action.type = "LOAD_BOARD" -> LOAD_BOARD(st, action.payload)
      [] action.type = "ADD_CARD" -> ADD_CARD(st, action.payload, uuid, time)
      [] action.type = "MOVE_CARD" -> MOVE_CARD(st, action.payload)
      [] action.type = "UPDATE_CARD" -> UPDATE_CARD(st, action.payload)
      [] action.type = "DELETE_CARD" -> DELETE_CARD(st, action.payload)
      [] action.type = "ADD_LABEL" -> ADD_LABEL(st, action.payload)
      [] action.type = "REORDER_COLUMN" -> REORDER_COLUMN(st, action.payload)
      [] OTHER -> st

\* whether reducing the action calls crypto.randomUUID() (payload.id is falsy)
CallsUUID(action) ==
    action.type = "ADD_CARD" /\ OrString(action.payload, "id", "") = ""

(***************************************************************************)
(* store.jsx: persistence.  A stored string is modelled by what            *)
(* JSON.parse makes of it.                                                 *)
(***************************************************************************)
NoItem == [tag |-> "null"]
EmptyString == [tag |-> "string", empty |-> TRUE, parses |-> FALSE]
Malformed == [tag |-> "string", empty |-> FALSE, parses |-> FALSE]
NotAnArray == [tag |-> "string", empty |-> FALSE, parses |-> TRUE,
               value |-> [isArray |-> FALSE]]

\* JSON.stringify(cards)
JSON_stringify(cards) ==
    [tag |-> "string", empty |-> FALSE, parses |-> TRUE,
     value |-> [isArray |-> TRUE, items |-> cards]]

\* JSON.parse(saved): ok is FALSE when it throws
JSON_parse(saved) ==
    IF saved.parses THEN [ok |-> TRUE, value |-> saved.value] ELSE [ok |-> FALSE]

\* the lazy initializer of useReducer; saved is localStorage.getItem(STORAGE_KEY)
Initializer(initial, saved) ==
    IF saved.tag = "null" \/ saved.empty THEN initial
    ELSE LET parsed == JSON_parse(saved)
         IN  IF ~parsed.ok THEN initial
             ELSE IF parsed.value.isArray /\ Len(parsed.value.items) > 0
                  THEN [initial EXCEPT !.cards = parsed.value.items]
                  ELSE initial

(***************************************************************************)
(* WebMCPTools.jsx: the input schemas (zod) fill in the declared defaults  *)
(* before the handler runs.                                                *)
(***************************************************************************)
\* the schema with another default column, columnEnum.default('todo')
createCardSchema_DefaultTodo(args) ==
    args @@ [priority |-> "medium", column |-> "todo"]

createCardSchema(args) ==
    args @@ [priority |-> "medium", column |-> "backlog"]

\* z.string().min(1): the field is present and not the empty string
StringMin1(args, key) == Has(args, key) /\ args[key] # ""

\* enum.optional() and enum.default(...): absent, or one of the values
OptionalEnum(args, key, values) == Has(args, key) => args[key] \in values

\* what each inputSchema accepts (description and labels are optional and
\* of any content)
createCardValid(args) ==
    /\ StringMin1(args, "title")
    /\ OptionalEnum(args, "priority", priorityEnum)
    /\ OptionalEnum(args, "column", columnEnum)

\* the move_card schema without the enumeration of toColumn
moveCardValid_AnyColumn(args) ==
    StringMin1(args, "cardId") /\ Has(args, "toColumn")

moveCardValid(args) ==
    /\ StringMin1(args, "cardId")
    /\ Has(args, "toColumn") /\ args.toColumn \in columnEnum

updateCardValid(args) ==
    /\ StringMin1(args, "cardId")
    /\ Has(args, "title") => args.title # ""
    /\ OptionalEnum(args, "priority", priorityEnum)

deleteCardValid(args) == StringMin1(args, "cardId")

addLabelValid(args) == StringMin1(args, "cardId") /\ StringMin1(args, "label")

getColumnSummaryValid(args) == Has(args, "column") /\ args.column \in columnEnum

prioritizeColumnValid(args) == Has(args, "column") /\ args.column \in columnEnum

\* what the caller gets when the arguments do not fit the inputSchema
ValidationError(name) == [rejected |-> TRUE, tool |-> name]

\* useWebMCP({ name, inputSchema, handler }): the arguments are parsed with
\* the schema, and the handler runs only on arguments that fit it
useWebMCP(name, valid, out) ==
    IF valid THEN [op |-> name, out |-> out]
    ELSE [op |-> "invalid",
          out |-> [result |-> ValidationError(name), dispatch |-> <<>>]]

(***************************************************************************)
(* WebMCPTools.jsx: the tool handlers.  s is the value read from           *)
(* stateRef.current; each handler yields its result and the actions it     *)
(* dispatches.                                                             *)
(***************************************************************************)
\* get_board also dispatching the cards it read back to the store
get_board_Dispatching(s) ==
    [result |-> [columns |-> <<>>, totalCards |-> Len(s.cards)],
     dispatch |-> <<[type |-> "LOAD_BOARD", payload |-> [cards |-> s.cards]]>>]

get_board(s) ==
    LET group(colId) ==
            LET cs == InColumn(s.cards, colId)
            IN  [column |-> colId,
                 title |-> MetaOf(s, colId).title,
                 cardCount |-> Len(cs),
                 cards |-> [j \in 1..Len(cs) |->
                              [id |-> cs[j].id, title |-> cs[j].title,
                               description |-> cs[j].description,
                               priority |-> cs[j].priority,
                               labels |-> cs[j].labels,
                               createdAt |-> cs[j].createdAt]]]
        columns == [i \in 1..Len(s.columns) |-> group(s.columns[i])]
    IN  [result |-> [columns |-> columns, totalCards |-> Len(s.cards)],
         dispatch |-> <<>>]

create_card(args, uuid, time) ==
    LET newCard == [id |-> uuid,
                    title |-> args.title,
                    description |-> OrString(args, "description", ""),
                    priority |-> OrString(args, "priority", "medium"),
                    labels |-> OrArray(args, "labels", <<>>),
                    column |-> OrString(args, "column", "backlog")]
    IN  [result |-> [success |-> TRUE, card |-> [createdAt |-> time] @@ newCard],
         dispatch |-> <<[type |-> "ADD_CARD", payload |-> newCard]>>]

NotFound(cardId) == [success |-> FALSE, error |-> <<"Card not found", cardId>>]

move_card(s, args) ==
    LET card == Find(s.cards, args.cardId)
    IN  IF card = Undefined
        THEN [result |-> NotFound(args.cardId), dispatch |-> <<>>]
        ELSE IF card.column = args.toColumn
        THEN [result |-> [success |-> FALSE,
                          error |-> <<"Card is already in", args.toColumn>>],
              dispatch |-> <<>>]
        ELSE [result |-> [success |-> TRUE, cardId |-> args.cardId,
                          fromColumn |-> card.column, toColumn |-> args.toColumn],
              dispatch |-> <<[type |-> "MOVE_CARD",
                              payload |-> [cardId |-> args.cardId,
                                           toColumn |-> args.toColumn]]>>]

UpdatableFields == <<"title", "description", "priority", "labels">>

update_card(s, args) ==
    LET card == Find(s.cards, args.cardId)
        supplied == SelectSeq(UpdatableFields, LAMBDA k : Has(args, k))
        updates == [k \in {supplied[i] : i \in 1..Len(supplied)} |-> args[k]]
    IN  IF card = Undefined
        THEN [result |-> NotFound(args.cardId), dispatch |-> <<>>]
        ELSE [result |-> [success |-> TRUE, cardId |-> args.cardId,
                          updatedFields |-> supplied],
              dispatch |-> <<[type |-> "UPDATE_CARD",
                              payload |-> [cardId |-> args.cardId,
                                           updates |-> updates]]>>]

delete_card(s, args) ==
    LET card == Find(s.cards, args.cardId)
    IN  IF card = Undefined
        THEN [result |-> NotFound(args.cardId), dispatch |-> <<>>]
        ELSE [result |-> [success |-> TRUE,
                          deletedCard |-> [id |-> card.id, title |-> card.title,
                                           column |-> card.column]],
              dispatch |-> <<[type |-> "DELETE_CARD",
                              payload |-> [cardId |-> args.cardId]]>>]

add_label(s, args) ==
    LET card == Find(s.cards, args.cardId)
    IN  IF card = Undefined
        THEN [result |-> NotFound(args.cardId), dispatch |-> <<>>]
        ELSE IF Includes(card.labels, args.label)
        THEN [result |-> [success |-> TRUE, alreadyExists |-> TRUE,
                          cardId |-> args.cardId, label |-> args.label],
              dispatch |-> <<>>]
        ELSE [result |-> [success |-> TRUE, cardId |-> args.cardId,
                          label |-> args.label,
                          newLabelCount |-> Len(card.labels) + 1],
              dispatch |-> <<[type |-> "ADD_LABEL",
                              payload |-> [cardId |-> args.cardId,
                                           label |-> args.label]]>>]

\* cards.flatMap(c => c.labels)
RECURSIVE FlatLabels(_)
FlatLabels(cards) ==
    IF cards = <<>> THEN <<>> ELSE Head(cards).labels \o FlatLabels(Tail(cards))

\* [...new Set(seq)]: first occurrences, in order
RECURSIVE Unique(_)
Unique(seq) ==
    IF seq = <<>> THEN <<>>
    ELSE LET init == Unique(SubSeq(seq, 1, Len(seq) - 1))
             x == seq[Len(seq)]
         IN  IF Includes(init, x) THEN init ELSE Append(init, x)

get_column_summary(s, args) ==
    LET cards == InColumn(s.cards, args.column)
        meta == MetaOf(s, args.column)
        priorities == [p \in priorityEnum |->
                         Cardinality({i \in 1..Len(cards) : cards[i].priority = p})]
        allLabels == Unique(FlatLabels(cards))
    IN  [result |-> [column |-> args.column, title |-> meta.title,
                     cardCount |-> Len(cards), priorities |-> priorities,
                     labels |-> allLabels,
                     cards |-> [i \in 1..Len(cards) |->
                                  [id |-> cards[i].id, title |-> cards[i].title,
                                   priority |-> cards[i].priority]]],
         dispatch |-> <<>>]

\* [...cards].sort((a, b) => priorityOrder[a.priority] - priorityOrder[b.priority]):
\* Array.prototype.sort is stable
RECURSIVE SortByPriority(_)
SortByPriority(cards) ==
    IF cards = <<>> THEN <<>>
    ELSE LET init == SortByPriority(SubSeq(cards, 1, Len(cards) - 1))
             x == cards[Len(cards)]
             keep == SelectSeq(init, LAMBDA c :
                        priorityOrder[c.priority] <= priorityOrder[x.priority])
             rest == SelectSeq(init, LAMBDA c :
                        priorityOrder[c.priority] > priorityOrder[x.priority])
         IN  keep \o <<x>> \o rest

prioritize_column(s, args) ==
    LET cards == InColumn(s.cards, args.column)
        sorted == SortByPriority(cards)
        cardIds == Ids(sorted)
    IN  [result |-> [success |-> TRUE, column |-> args.column,
                     newOrder |-> [i \in 1..Len(sorted) |->
                                     [id |-> sorted[i].id, title |-> sorted[i].title,
                                      priority |-> sorted[i].priority]]],
         dispatch |-> <<[type |-> "REORDER_COLUMN",
                         payload |-> [column |-> args.column, cardIds |-> cardIds]]>>]

(***************************************************************************)
(* Card.jsx: the UI gestures.                                              *)
(***************************************************************************)
\* title.trim(), on the titles the form is given
Trim(title) ==
    CASE title = "   " -> ""
      [] title = " Fix bug " -> "Fix bug"
      [] OTHER -> title

\* handleSubmit testing the title as typed, if (!title) return
handleSubmit_Untrimmed(title, priority, columnId) ==
    IF title = "" THEN <<>>
    ELSE <<[type |-> "ADD_CARD",
            payload |-> [title |-> Trim(title), priority |-> priority,
                         column |-> columnId]]>>

\* AddCardForm.handleSubmit with the form's title and priority, in column columnId
handleSubmit(title, priority, columnId) ==
    IF Trim(title) = "" THEN <<>>
    ELSE <<[type |-> "ADD_CARD",
            payload |-> [title |-> Trim(title), priority |-> priority,
                         column |-> columnId]]>>

\* Column.handleDrop on column id; cardId is e.dataTransfer.getData('text/plain')
handleDrop(id, cardId) ==
    IF cardId # ""
    THEN <<[type |-> "MOVE_CARD", payload |-> [cardId |-> cardId, toColumn |-> id]]>>
    ELSE <<>>

(***************************************************************************)
(* React: the render of BoardProvider and the passive effects.             *)
(***************************************************************************)
\* useReducer: fold boardReducer over the queued actions, in dispatch order
RECURSIVE Reduce(_, _, _, _)
Reduce(st, q, u, time) ==
    IF q = <<>> THEN [state |-> st, uuids |-> u]
    ELSE LET u2 == IF CallsUUID(Head(q)) THEN u + 1 ELSE u
         IN  Reduce(boardReducer(st, Head(q), randomUUID(u2), time), Tail(q), u2, time)

\* WebMCPTools: useEffect(() => { stateRef.current = state }, [state])
StateRefEffect(st) == st

\* BoardProvider: useEffect(() => localStorage.setItem(STORAGE_KEY, ...), [state.cards])
PersistEffect(st) == JSON_stringify(st.cards)

\* number of queued actions whose reduction will call crypto.randomUUID()
PendingUUIDs == Cardinality({i \in 1..Len(queue) : CallsUUID(queue[i])})

NoOp == [op |-> "none"]
NoReduce == [type |-> "none"]

\* what prev keeps of an operation
Summary(o) ==
    IF o.op = "none" THEN o
    ELSE [op |-> o.op, args |-> o.args,
          success |-> IF Has(o.result, "rejected") THEN FALSE
                      ELSE IF Has(o.result, "success") THEN o.result.success
                      ELSE TRUE]

(***************************************************************************)
(* Inputs of the operations.                                               *)
(***************************************************************************)
\* card ids a caller names: two cards of the seed board and a generated id
\* (an id names no card until it is created, and after it is deleted)
ArgCardIds == {"seed-6", "seed-7", randomUUID(1)}
ArgColumns == {"todo", "done"}
ArgLabel == {"ux"}
DragData == {"seed-6", randomUUID(1), ""}

CreateArgs ==
    {[title |-> "Fix bug"],
     [title |-> "Fix bug", priority |-> "critical", column |-> "todo"],
     [title |-> "Fix bug", description |-> "Steps to reproduce",
      labels |-> <<"core", "core">>]}

UpdateArgs ==
    {[cardId |-> c, priority |-> "critical"] : c \in ArgCardIds}
    \cup {[cardId |-> c, title |-> "Renamed", description |-> "",
           labels |-> <<"core", "core">>] : c \in ArgCardIds}

MoveArgs == {[cardId |-> c, toColumn |-> k] : c \in ArgCardIds, k \in ArgColumns}
DeleteArgs == {[cardId |-> c] : c \in ArgCardIds}
\* every card with the label, and seed-6 with a second label
AddLabelArgs ==
    {[cardId |-> c, label |-> l] : c \in ArgCardIds, l \in ArgLabel}
        \cup {[cardId |-> "seed-6", label |-> "api"]}
ColumnArgs == {[column |-> k] : k \in ArgColumns}

\* arguments that do not fit the inputSchema of the tool they are sent to:
\* a required field missing, an empty string where min(1) is declared, a
\* value outside its enumeration
BadCreateArgs == {[title |-> ""], [priority |-> "high"]}
BadMoveArgs == {[cardId |-> "seed-6", toColumn |-> "archive"]}
BadUpdateArgs == {[cardId |-> "seed-6", priority |-> "urgent"]}
BadDeleteArgs == {[id |-> "seed-6"]}
BadAddLabelArgs == {[cardId |-> "seed-6", label |-> ""], [cardId |-> "seed-6"]}
BadPrioritizeArgs == {[columnId |-> "todo"]}

\* what the user typed in the add-card form, and the priority picked
FormTitles == {"   ", " Fix bug "}
FormPriorities == {"medium", "low"}
FormColumns == {"todo"}

(***************************************************************************)
(* The state machine.                                                      *)
(***************************************************************************)
InitialItems ==
    {NoItem, EmptyString, Malformed, NotAnArray,
     JSON_stringify(<<>>), JSON_stringify(<<SEED_CARDS[3]>>)}

\* The state once BoardProvider and WebMCPTools have mounted: the lazy
\* initializer has run, and so have the mount effects.
Init ==
    \E item \in InitialItems :
        /\ state = Initializer(INITIAL_STATE, item)
        /\ stateRef = StateRefEffect(state)
        /\ storage = PersistEffect(state)
        /\ queue = <<>>
        /\ passive = FALSE
        /\ now = 1
        /\ uuids = 0
        /\ last = NoOp
        /\ prev = NoOp
        /\ reduced = NoReduce
        /\ nops = 0

\* an operation named op with arguments args ran and yielded out
Invoke(op, args, out) ==
    /\ nops < MaxOps
    /\ Len(queue) + Len(out.dispatch) <= MaxQueue
    /\ queue' = queue \o out.dispatch
    /\ last' = [op |-> op, args |-> args, result |-> out.result,
                dispatch |-> out.dispatch]
    /\ prev' = Summary(last)
    /\ nops' = nops + 1
    /\ UNCHANGED <<state, stateRef, storage, passive, now, reduced>>

GetBoard ==
    /\ Invoke("get_board", <<>>, get_board(stateRef))
    /\ UNCHANGED uuids

CreateCard ==
    \E raw \in CreateArgs \cup BadCreateArgs :
        LET call == useWebMCP("create_card", createCardValid(raw),
                              create_card(createCardSchema(raw),
                                          randomUUID(uuids + 1), now))
        IN  /\ createCardValid(raw) => uuids + PendingUUIDs < MaxUuid
            /\ Invoke(call.op, raw, call.out)
            /\ uuids' = IF createCardValid(raw) THEN uuids + 1 ELSE uuids

MoveCard ==
    \E args \in MoveArgs \cup BadMoveArgs :
        LET call == useWebMCP("move_card", moveCardValid(args),
                              move_card(stateRef, args))
        IN  /\ Invoke(call.op, args, call.out)
            /\ UNCHANGED uuids

UpdateCard ==
    \E args \in UpdateArgs \cup BadUpdateArgs :
        LET call == useWebMCP("update_card", updateCardValid(args),
                              update_card(stateRef, args))
        IN  /\ Invoke(call.op, args, call.out)
            /\ UNCHANGED uuids

DeleteCard ==
    \E args \in DeleteArgs \cup BadDeleteArgs :
        LET call == useWebMCP("delete_card", deleteCardValid(args),
                              delete_card(stateRef, args))
        IN  /\ Invoke(call.op, args, call.out)
            /\ UNCHANGED uuids

AddLabel ==
    \E args \in AddLabelArgs \cup BadAddLabelArgs :
        LET call == useWebMCP("add_label", addLabelValid(args),
                              add_label(stateRef, args))
        IN  /\ Invoke(call.op, args, call.out)
            /\ UNCHANGED uuids

GetColumnSummary ==
    \E args \in ColumnArgs :
        LET call == useWebMCP("get_column_summary", getColumnSummaryValid(args),
                              get_column_summary(stateRef, args))
        IN  /\ Invoke(call.op, args, call.out)
            /\ UNCHANGED uuids

PrioritizeColumn ==
    \E args \in ColumnArgs \cup BadPrioritizeArgs :
        LET call == useWebMCP("prioritize_column", prioritizeColumnValid(args),
                              prioritize_column(stateRef, args))
        IN  /\ Invoke(call.op, args, call.out)
            /\ UNCHANGED uuids

\* the user drops the dragged data on column k
Drop ==
    \E k \in ArgColumns, data \in DragData :
        /\ Invoke("drop", [cardId |-> data, toColumn |-> k],
                  [result |-> [success |-> data # ""], dispatch |-> handleDrop(k, data)])
        /\ UNCHANGED uuids

\* the user submits the add-card form of column k
SubmitForm ==
    \E t \in FormTitles, p \in FormPriorities, k \in FormColumns :
        /\ uuids + PendingUUIDs < MaxUuid
        /\ Invoke("add_card_form", [title |-> t, priority |-> p, column |-> k],
                  [result |-> [success |-> Trim(t) # ""],
                   dispatch |-> handleSubmit(t, p, k)])
        /\ UNCHANGED uuids

\* a render reducing the queued actions newest first
Render_NewestFirst ==
    /\ queue # <<>>
    /\ LET n == Len(queue)
           q == [i \in 1..n |-> queue[n + 1 - i]]
           before == Reduce(state, SubSeq(q, 1, n - 1), uuids, now)
           after == Reduce(before.state, <<q[n]>>, before.uuids, now)
       IN  /\ state' = after.state
           /\ uuids' = after.uuids
           /\ reduced' = [type |-> q[n].type, payload |-> q[n].payload,
                          before |-> before.state.cards, after |-> after.state.cards]
    /\ queue' = <<>>
    /\ stateRef' = IF passive THEN StateRefEffect(state) ELSE stateRef
    /\ storage' = IF passive THEN PersistEffect(state) ELSE storage
    /\ passive' = TRUE
    /\ UNCHANGED <<now, last, prev, nops>>

\* React renders BoardProvider: the passive effects of the previous commit
\* run first if they have not yet, then the queued actions are reduced in
\* order and the new state is committed.
Render ==
    /\ queue # <<>>
    /\ LET n == Len(queue)
           before == Reduce(state, SubSeq(queue, 1, n - 1), uuids, now)
           after == Reduce(before.state, <<queue[n]>>, before.uuids, now)
       IN  /\ state' = after.state
           /\ uuids' = after.uuids
           /\ reduced' = [type |-> queue[n].type, payload |-> queue[n].payload,
                          before |-> before.state.cards, after |-> after.state.cards]
    /\ queue' = <<>>
    /\ stateRef' = IF passive THEN StateRefEffect(state) ELSE stateRef
    /\ storage' = IF passive THEN PersistEffect(state) ELSE storage
    /\ passive' = TRUE
    /\ UNCHANGED <<now, last, prev, nops>>

\* the passive effects run without WebMCPTools' refresh of stateRef
FlushPassiveEffects_NoRef ==
    /\ passive
    /\ storage' = PersistEffect(state)
    /\ passive' = FALSE
    /\ UNCHANGED <<state, stateRef, queue, now, uuids, last, prev, reduced, nops>>

\* the passive effects of the last commit run: WebMCPTools' (the child) and
\* then BoardProvider's
FlushPassiveEffects ==
    /\ passive
    /\ stateRef' = StateRefEffect(state)
    /\ storage' = PersistEffect(state)
    /\ passive' = FALSE
    /\ UNCHANGED <<state, queue, now, uuids, last, prev, reduced, nops>>

\* the page is reloaded: the tree is mounted again from localStorage
Reload ==
    /\ nops < MaxOps
    /\ state' = Initializer(INITIAL_STATE, storage)
    /\ stateRef' = StateRefEffect(state')
    /\ storage' = PersistEffect(state')
    /\ queue' = <<>>
    /\ passive' = FALSE
    /\ last' = [op |-> "reload", args |-> <<>>, result |-> [success |-> TRUE],
                dispatch |-> <<>>]
    /\ prev' = Summary(last)
    /\ reduced' = [type |-> "reload", saved |-> storage, after |-> state'.cards]
    /\ nops' = nops + 1
    /\ UNCHANGED <<now, uuids>>

\* time passes between a dispatch of ADD_CARD and its reduction (the clock
\* is read nowhere else)
Tick ==
    /\ now < MaxClock
    /\ \E i \in 1..Len(queue) : queue[i].type = "ADD_CARD"
    /\ now' = now + 1
    /\ UNCHANGED <<state, queue, stateRef, storage, passive, uuids, last, prev,
                   reduced, nops>>

Next ==
    \/ GetBoard
    \/ CreateCard
    \/ MoveCard
    \/ UpdateCard
    \/ DeleteCard
    \/ AddLabel
    \/ GetColumnSummary
    \/ PrioritizeColumn
    \/ Drop
    \/ SubmitForm
    \/ Render
    \/ FlushPassiveEffects
    \/ Reload
    \/ Tick

Spec == Init /\ [][Next]_vars

\* React's scheduler: a dispatched action is eventually rendered, and the
\* passive effects of a commit are eventually run
SpecFair == Spec /\ WF_vars(Render) /\ WF_vars(FlushPassiveEffects)

\* A Board an earlier session left in localStorage: seed-6 and, behind it,
\* seed-4 after it was moved to todo.
StoredBoard ==
    <<SEED_CARDS[2],
      [id |-> "seed-4", title |-> "Register WebMCP tools",
       description |-> "Wire up all 8 tools using useWebMCP hooks with Zod schemas.",
       priority |-> "critical", labels |-> <<"webmcp", "core">>,
       column |-> "todo", createdAt |-> 0]>>

\* the state once the page has mounted from that Board
InitStored ==
    /\ state = Initializer(INITIAL_STATE, JSON_stringify(StoredBoard))
    /\ stateRef = StateRefEffect(state)
    /\ storage = PersistEffect(state)
    /\ queue = <<>>
    /\ passive = FALSE
    /\ now = 1
    /\ uuids = 0
    /\ last = NoOp
    /\ prev = NoOp
    /\ reduced = NoReduce
    /\ nops = 0

SpecStored == InitStored /\ [][Next]_vars

\* the state right after update_card raised seed-6 to critical on the seed
\* board: its UPDATE_CARD is dispatched and not yet reduced (operations are
\* counted from here)
InitPending ==
    LET args == [cardId |-> "seed-6", priority |-> "critical"]
        call == update_card(Initializer(INITIAL_STATE, NoItem), args)
    IN  /\ state = Initializer(INITIAL_STATE, NoItem)
        /\ stateRef = StateRefEffect(state)
        /\ storage = PersistEffect(state)
        /\ queue = call.dispatch
        /\ passive = FALSE
        /\ now = 1
        /\ uuids = 0
        /\ last = [op |-> "update_card", args |-> args, result |-> call.result,
                   dispatch |-> call.dispatch]
        /\ prev = NoOp
        /\ reduced = NoReduce
        /\ nops = 0

SpecPending == InitPending /\ [][Next]_vars

\* card collections a LOAD_BOARD action carries: none, and a stored Board
LoadPayloads == {[cards |-> <<>>], [cards |-> StoredBoard]}

\* a component dispatches LOAD_BOARD through useBoardDispatch()
LoadBoard ==
    \E payload \in LoadPayloads :
        /\ Invoke("load_board", payload,
                  [result |-> [success |-> TRUE],
                   dispatch |-> <<[type |-> "LOAD_BOARD", payload |-> payload]>>])
        /\ UNCHANGED uuids

NextLoad ==
    \/ LoadBoard
    \/ Next

\* the program with LOAD_BOARD among the actions dispatched
SpecLoad == Init /\ [][NextLoad]_vars

(***************************************************************************)
(* Properties.                                                             *)
(***************************************************************************)
ToolsReadingState ==
    {"get_board", "move_card", "update_card", "delete_card", "add_label",
     "get_column_summary", "prioritize_column"}
Gestures == {"drop", "add_card_form"}

IdSet(cards) == {cards[i].id : i \in 1..Len(cards)}

\* the columns under which a get_board result lists the card with this id
ListedUnder(result, id) ==
    {result.columns[i].column : i \in
        {n \in 1..Len(result.columns) :
            \E j \in 1..Len(result.columns[n].cards) :
                result.columns[n].cards[j].id = id}}

\* C1: live-state freshness.  Every step in which a tool handler reads
\* stateRef.current, or a UI gesture starts, begins in a state where no
\* dispatched action is still waiting to be reduced and stateRef.current
\* is the committed Board.
C1_LiveStateFresh ==
    [][(nops' = nops + 1 /\ last'.op \in ToolsReadingState \cup Gestures)
          => (queue = <<>> /\ stateRef = state)]_vars

\* C2: when get_board is invoked right after a successful move_card, or
\* right after a drop of a card on a column, its result lists that card
\* under the new column and under no other column.
C2_MoveThenGetBoard ==
    (/\ last.op = "get_board"
     /\ prev.op \in {"move_card", "drop"}
     /\ prev.success
     /\ prev.args.cardId \in IdSet(state.cards) \cup IdSet(stateRef.cards))
        => ListedUnder(last.result, prev.args.cardId) = {prev.args.toColumn}

\* C3: no two cards of the Board have the same id.
C3_UniqueIds ==
    \A i, j \in 1..Len(state.cards) :
        i # j => state.cards[i].id # state.cards[j].id

\* C4: every card's column is one of the identifiers in columns.
C4_ColumnsValid ==
    \A i \in 1..Len(state.cards) :
        \E k \in 1..Len(state.columns) : state.cards[i].column = state.columns[k]

\* C4 witness: a move to another column and a creation have been committed.
C4_Witness ==
    /\ reduced.type \in {"MOVE_CARD", "ADD_CARD"}
    /\ queue = <<>>
    /\ \E i \in 1..Len(state.cards) :
          /\ state.cards[i].column = "done"
          /\ state.cards[i].id = "seed-6"
    /\ C4_ColumnsValid

\* C5: cards are destroyed only by delete.  Reducing any action other than
\* DELETE_CARD keeps every card id that was on the Board.
C5_OnlyDeleteDestroys ==
    reduced.type \in {"ADD_CARD", "MOVE_CARD", "UPDATE_CARD", "ADD_LABEL",
                      "REORDER_COLUMN"}
        => IdSet(reduced.before) \subseteq IdSet(reduced.after)

\* C6: no card's labels contain the same string twice.
C6_UniqueLabels ==
    \A i \in 1..Len(state.cards) :
        \A m, n \in 1..Len(state.cards[i].labels) :
            m # n => state.cards[i].labels[m] # state.cards[i].labels[n]

\* C7: add_label is idempotent.  When add_label is invoked a second time
\* with the cardId and label of a successful add_label just before it, the
\* second call returns success with alreadyExists and dispatches nothing;
\* and reducing ADD_LABEL for a label the card already has leaves the cards
\* unchanged.
C7_AddLabelIdempotent ==
    /\ (/\ last.op = "add_label"
        /\ prev.op = "add_label"
        /\ prev.success
        /\ prev.args = last.args)
          => /\ last.result.success
             /\ Has(last.result, "alreadyExists")
             /\ last.dispatch = <<>>
    /\ (/\ reduced.type = "ADD_LABEL"
        /\ \E i \in 1..Len(reduced.before) :
              /\ reduced.before[i].id = reduced.payload.cardId
              /\ Includes(reduced.before[i].labels, reduced.payload.label))
          => reduced.after = reduced.before

\* C8: prioritize_column returns a newOrder of non-decreasing priority rank,
\* and once its dispatch is committed (and nothing else was invoked since)
\* the cards of that column are on the Board in exactly the returned order.
C8_PrioritizeOrder ==
    last.op = "prioritize_column"
        => /\ \A i, j \in 1..Len(last.result.newOrder) :
                 i < j => priorityOrder[last.result.newOrder[i].priority]
                            <= priorityOrder[last.result.newOrder[j].priority]
           /\ queue = <<>>
                 => Ids(InColumn(state.cards, last.args.column))
                      = Ids(last.result.newOrder)

\* C9: reducing the reorder that prioritize_column dispatches leaves the
\* cards of every other column unchanged, in content and in order.
C9_OtherColumnsUntouched ==
    reduced.type = "REORDER_COLUMN"
        => \A k \in columnEnum \ {reduced.payload.column} :
              InColumn(reduced.after, k) = InColumn(reduced.before, k)

\* C10: persistence round trip.  Re-initialising the Board from the cards
\* the persistence effect wrote yields the same cards, in the same order.
C10_RoundTrip ==
    (reduced.type = "reload" /\ reduced.saved.parses /\ reduced.saved.value.isArray)
        => reduced.after = reduced.saved.value.items

CardTools == {"move_card", "update_card", "delete_card", "add_label"}

\* C11: a move_card, update_card, delete_card or add_label invocation that
\* names a cardId no card of the Board has returns success false with an
\* error, dispatches nothing, and leaves the cards unchanged.
C11_NotFoundRejected ==
    [][(/\ nops' = nops + 1
        /\ last'.op \in CardTools
        /\ last'.args.cardId \notin IdSet(state.cards))
          => /\ last'.result.success = FALSE
             /\ Has(last'.result, "error")
             /\ last'.dispatch = <<>>
             /\ queue' = queue
             /\ state'.cards = state.cards]_vars

\* C12: once delete_card has succeeded for a card, a move_card, update_card,
\* delete_card or add_label invoked next with that card's id does not
\* report success.
C12_DeletedStaysDeleted ==
    (/\ prev.op = "delete_card"
     /\ prev.success
     /\ last.op \in CardTools
     /\ last.args.cardId = prev.args.cardId)
        => last.result.success = FALSE

\* C13: move_card invoked with the column the card is in on the Board
\* returns success false with an error, dispatches nothing, and leaves the
\* Board unchanged.
C13_SameColumnRejected ==
    [][(/\ nops' = nops + 1
        /\ last'.op = "move_card"
        /\ \E i \in 1..Len(state.cards) :
              /\ state.cards[i].id = last'.args.cardId
              /\ state.cards[i].column = last'.args.toColumn)
          => /\ last'.result.success = FALSE
             /\ Has(last'.result, "error")
             /\ last'.dispatch = <<>>
             /\ queue' = queue
             /\ state' = state]_vars

\* C14: update_card invoked with a subset S of title, description, priority
\* and labels reports updatedFields equal to S and dispatches an update of
\* exactly the fields in S; reducing it sets those fields on the target
\* card to the supplied values and leaves the card's other fields (id,
\* column, createdAt among them), every other card and the card order
\* unchanged.
C14_UpdateFrame ==
    /\ (last.op = "update_card" /\ last.result.success)
          => LET S == DOMAIN last.args \ {"cardId"}
                 fields == last.result.updatedFields
             IN  /\ S \subseteq {"title", "description", "priority", "labels"}
                 /\ {fields[i] : i \in 1..Len(fields)} = S
                 /\ Len(fields) = Cardinality(S)
                 /\ Len(last.dispatch) = 1
                 /\ last.dispatch[1].type = "UPDATE_CARD"
                 /\ last.dispatch[1].payload.cardId = last.args.cardId
                 /\ DOMAIN last.dispatch[1].payload.updates = S
                 /\ \A k \in S : last.dispatch[1].payload.updates[k] = last.args[k]
    /\ reduced.type = "UPDATE_CARD"
          => /\ Len(reduced.after) = Len(reduced.before)
             /\ \A i \in 1..Len(reduced.before) :
                   IF reduced.before[i].id = reduced.payload.cardId
                   THEN /\ DOMAIN reduced.after[i] = DOMAIN reduced.before[i]
                        /\ \A k \in DOMAIN reduced.before[i] :
                              reduced.after[i][k] =
                                 IF k \in DOMAIN reduced.payload.updates
                                 THEN reduced.payload.updates[k]
                                 ELSE reduced.before[i][k]
                   ELSE reduced.after[i] = reduced.before[i]

\* C14 witness: an update_card with only priority supplied has been
\* committed and changed the priority of its card.
C14_Witness ==
    /\ last.op = "update_card"
    /\ DOMAIN last.args = {"cardId", "priority"}
    /\ reduced.type = "UPDATE_CARD"
    /\ reduced.payload = last.dispatch[1].payload
    /\ \E i \in 1..Len(reduced.before) :
          /\ reduced.before[i].id = last.args.cardId
          /\ reduced.before[i].priority # "critical"
          /\ reduced.after[i].priority = "critical"
          /\ reduced.after[i].title = reduced.before[i].title

\* a create_card call given only a title whose ADD_CARD is the action
\* reduced last
TitleOnlyCreateReduced ==
    /\ last.op = "create_card"
    /\ DOMAIN last.args = {"title"}
    /\ reduced.type = "ADD_CARD"
    /\ reduced.payload = last.dispatch[1].payload

\* C15: create_card invoked with only a title adds exactly one card, after
\* the cards already on the Board, with that title, column backlog,
\* priority medium, no labels, an empty description and an id that no card
\* already on the Board has; the result reports the same card.
C15_CreateDefaults ==
    TitleOnlyCreateReduced
        => LET n == Len(reduced.before)
               card == reduced.after[n + 1]
           IN  /\ Len(reduced.after) = n + 1
               /\ SubSeq(reduced.after, 1, n) = reduced.before
               /\ card.title = last.args.title
               /\ card.column = "backlog"
               /\ card.priority = "medium"
               /\ card.labels = <<>>
               /\ card.description = ""
               /\ card.id \notin IdSet(reduced.before)
               /\ last.result.success
               /\ \A k \in {"id", "title", "column", "priority", "labels", "description"} :
                     last.result.card[k] = card[k]

\* C15 witness: such a create_card has been committed to the Board.
C15_Witness ==
    /\ TitleOnlyCreateReduced
    /\ queue = <<>>
    /\ state.cards = reduced.after
    /\ state.cards[Len(state.cards)].id = randomUUID(1)

Tools ==
    {"get_board", "create_card", "move_card", "update_card", "delete_card",
     "add_label", "get_column_summary", "prioritize_column"}

\* C16: every tool invocation issues at most one dispatch, and what it
\* issues is all that it adds to the pending actions; get_board and
\* get_column_summary issue none and leave the Board (columns, columnMeta,
\* cards and their order) as it was.
C16_AtMostOneDispatch ==
    [][(nops' = nops + 1 /\ last'.op \in Tools)
          => /\ Len(last'.dispatch) <= 1
             /\ queue' = queue \o last'.dispatch
             /\ state' = state
             /\ last'.op \in {"get_board", "get_column_summary"}
                   => /\ last'.dispatch = <<>>
                      /\ queue' = queue]_vars

\* C16 witness: get_board ran right after a tool that dispatched, issued
\* nothing itself, and the Board it left has since been committed.
C16_Witness ==
    /\ last.op = "get_board"
    /\ last.dispatch = <<>>
    /\ prev.op \in {"create_card", "prioritize_column"}
    /\ queue = <<>>
    /\ reduced.type \in {"ADD_CARD", "REORDER_COLUMN"}

\* C17: for the committed Board, every card c on it and every column k
\* other than c's column, dropping c on column k and invoking
\* move_card(c, k) dispatch the same MOVE_CARD action, and reducing what
\* each dispatched (after the actions already pending) yields the same
\* Board.
C17_MovePathsEquivalent ==
    \A i \in 1..Len(state.cards), k \in columnEnum :
        state.cards[i].column # k
            => LET c == state.cards[i].id
                   byDrop == handleDrop(k, c)
                   byTool == move_card(stateRef, [cardId |-> c, toColumn |-> k]).dispatch
               IN  /\ byDrop = <<[type |-> "MOVE_CARD",
                                  payload |-> [cardId |-> c, toColumn |-> k]]>>
                   /\ byTool = byDrop
                   /\ Reduce(state, queue \o byTool, uuids, now).state
                         = Reduce(state, queue \o byDrop, uuids, now).state

\* the actions of q applied to st one after another, oldest first; u is the
\* number of ids crypto.randomUUID() has handed out before
RECURSIVE InArrivalOrder(_, _, _, _)
InArrivalOrder(st, q, u, time) ==
    IF q = <<>> THEN st
    ELSE LET n == Len(q)
             k == u + Cardinality({i \in 1..n : CallsUUID(q[i])})
         IN  boardReducer(InArrivalOrder(st, SubSeq(q, 1, n - 1), u, time),
                          q[n], randomUUID(k), time)

C19_MirroredBeforeNextOperation ==
    [][/\ ~passive' => storage' = JSON_stringify(state'.cards)
       /\ nops' = nops + 1 => storage = JSON_stringify(state.cards)]_vars

\* the first half of C19 alone: with no passive effect pending, the stored
\* item is the serialization of the committed cards
PersistedWhenEffectsRan ==
    ~passive => storage = JSON_stringify(state.cards)

\* C20: when the page starts, a store holding no item, an empty string or
\* a string that does not parse gives the Board the seed cards; a store
\* holding a parseable collection of cards gives the Board exactly that
\* collection.  (saved is the item the lazy initializer read.)
C20_StartupFromStore ==
    reduced.type = "reload"
        => LET saved == reduced.saved
           IN  /\ (saved.tag = "null" \/ saved.empty \/ ~saved.parses)
                     => reduced.after = SEED_CARDS
               /\ (saved.tag = "string" /\ saved.parses /\ saved.value.isArray)
                     => reduced.after = saved.value.items

\* the tool an invocation was sent to, whether or not its handler ran
ToolOf(o) == IF o.op = "invalid" THEN o.result.tool ELSE o.op

RequiredFields(tool) ==
    CASE tool = "create_card" -> {"title"}
      [] tool = "move_card" -> {"cardId", "toColumn"}
      [] tool = "update_card" -> {"cardId"}
      [] tool = "delete_card" -> {"cardId"}
      [] tool = "add_label" -> {"cardId", "label"}
      [] tool = "get_column_summary" -> {"column"}
      [] tool = "prioritize_column" -> {"column"}
      [] OTHER -> {}

\* the arguments violate the declared input shape: a required field is
\* missing, title or label is empty, or priority or a column is outside
\* its enumeration
ShapeViolated(tool, args) ==
    \/ \E f \in RequiredFields(tool) : ~Has(args, f)
    \/ \E f \in {"title", "label"} : Has(args, f) /\ args[f] = ""
    \/ Has(args, "priority") /\ args.priority \notin priorityEnum
    \/ \E f \in {"column", "toColumn"} : Has(args, f) /\ args[f] \notin columnEnum

\* C21: an invocation whose arguments violate the declared input shape is
\* rejected before the handler body runs: the caller gets the validation
\* error, no dispatch is issued and the Board is unchanged.
C21_InvalidRejected ==
    [][(/\ nops' = nops + 1
        /\ ToolOf(last') \in Tools
        /\ ShapeViolated(ToolOf(last'), last'.args))
          => /\ last'.op = "invalid"
             /\ last'.result = ValidationError(ToolOf(last'))
             /\ last'.dispatch = <<>>
             /\ queue' = queue
             /\ state' = state]_vars

\* C21 witness: a move_card naming a column outside the enumeration was
\* rejected while an earlier dispatch was still pending, and that dispatch
\* is the only one pending.
C21_Witness ==
    /\ last.op = "invalid"
    /\ last.result.tool = "move_card"
    /\ last.args.toColumn \notin columnEnum
    /\ last.dispatch = <<>>
    /\ prev.op = "create_card"
    /\ Len(queue) = 1

\* what crypto.randomUUID() and new Date() can return to two applications
\* of the reducer
SomeUUIDs == {randomUUID(k) : k \in 1..(MaxUuid + 1)}
SomeTimes == 1..MaxClock

\* C22: the reducer is a deterministic function of the Board and the
\* action.  Applying any dispatched action to the committed Board twice
\* yields the same Board, whatever crypto.randomUUID() and the clock
\* return to each application.
C22_ReducerDeterministic ==
    \A i \in 1..Len(queue) :
        \A u1, u2 \in SomeUUIDs, t1, t2 \in SomeTimes :
            boardReducer(state, queue[i], u1, t1) = boardReducer(state, queue[i], u2, t2)

\* C23: createdAt is assigned once.  A card that is on the Board before
\* and after a step (a render of any moves, updates, added labels,
\* reorders and UI gestures, or a reload of the page) has the same
\* createdAt after it as before.
C23_CreatedAtFixed ==
    [][\A i \in 1..Len(state.cards), j \in 1..Len(state'.cards) :
          state.cards[i].id = state'.cards[j].id
              => state'.cards[j].createdAt = state.cards[i].createdAt]_vars

\* C23 witness: a card made by create_card or the add-card form was moved
\* afterwards, and the committed Board shows it in the new column with
\* the createdAt it had.
C23_Witness ==
    /\ reduced.type = "MOVE_CARD"
    /\ queue = <<>>
    /\ state.cards = reduced.after
    /\ \E i \in 1..Len(reduced.before) :
          /\ reduced.before[i].id = reduced.payload.cardId
          /\ reduced.before[i].id \notin {SEED_CARDS[n].id : n \in 1..Len(SEED_CARDS)}
          /\ reduced.before[i].column # reduced.after[i].column
          /\ reduced.after[i].createdAt = reduced.before[i].createdAt
          /\ reduced.after[i].createdAt >= 1

\* positions of the cards of column k on the Board
PositionsIn(cards, k) == {i \in 1..Len(cards) : cards[i].column = k}

\* what C24 says of a get_column_summary result r for column k, given the
\* cards the summary is about
SummaryMatches(r, cards, k) ==
    LET at == PositionsIn(cards, k)
    IN  /\ r.cardCount = Cardinality(at)
        /\ \A p \in priorityEnum :
              r.priorities[p] = Cardinality({i \in at : cards[i].priority = p})
        /\ r.priorities["low"] + r.priorities["medium"] + r.priorities["high"]
              + r.priorities["critical"] = r.cardCount
        /\ {r.labels[n] : n \in 1..Len(r.labels)}
              = UNION {{cards[i].labels[n] : n \in 1..Len(cards[i].labels)} : i \in at}
        /\ \A m, n \in 1..Len(r.labels) : m # n => r.labels[m] # r.labels[n]
        /\ {r.cards[n].id : n \in 1..Len(r.cards)} = {cards[i].id : i \in at}
        /\ at = {} => r.labels = <<>> /\ r.cards = <<>>

\* C24: get_column_summary, invoked while no dispatch is pending, returns
\* the count of the cards the Board then has in the column, per-priority
\* counts that sum to it, and the duplicate-free union of those cards'
\* labels; for an empty column the counts are zero and labels and cards
\* are empty.
C24_SummaryOfBoard ==
    [][(/\ nops' = nops + 1
        /\ last'.op = "get_column_summary"
        /\ queue = <<>>)
          => SummaryMatches(last'.result, state.cards, last'.args.column)]_vars

\* the same of the snapshot the handler read
SummaryOfSnapshot ==
    [][(nops' = nops + 1 /\ last'.op = "get_column_summary")
          => SummaryMatches(last'.result, stateRef.cards, last'.args.column)]_vars

\* C25: every card of every Board reached from the seed board has a
\* non-empty title.
C25_TitlesNonEmpty ==
    \A i \in 1..Len(state.cards) : state.cards[i].title # ""

\* C25 witness: a card made by the add-card form has been given a new
\* title by update_card, and the Board shows it.
C25_Witness ==
    /\ prev.op = "add_card_form" /\ prev.success
    /\ last.op = "update_card" /\ last.result.success
    /\ Has(last.args, "title")
    /\ queue = <<>>
    /\ \E i \in 1..Len(state.cards) :
          /\ state.cards[i].id = last.args.cardId
          /\ state.cards[i].id \notin {SEED_CARDS[n].id : n \in 1..Len(SEED_CARDS)}
          /\ state.cards[i].title = last.args.title

\* C26: reducing REORDER_COLUMN with a column and an ordered id list gives
\* the cards not in that column, in their order, followed by the cards of
\* that column in the order of the list; an id of the list that matches no
\* card of that column contributes nothing, so no card appears twice.
C26_ReorderResult ==
    reduced.type = "REORDER_COLUMN"
        => LET k == reduced.payload.column
               before == reduced.before
               others == SelectSeq(before, LAMBDA c : c.column # k)
               listed == SelectSeq(reduced.payload.cardIds, LAMBDA id :
                            \E i \in 1..Len(before) :
                               before[i].id = id /\ before[i].column = k)
               rest == SubSeq(reduced.after, Len(others) + 1, Len(reduced.after))
           IN  /\ Len(reduced.after) = Len(others) + Len(listed)
               /\ SubSeq(reduced.after, 1, Len(others)) = others
               /\ Ids(rest) = listed
               /\ \A n \in 1..Len(rest) :
                     /\ rest[n].column = k
                     /\ \E i \in 1..Len(before) : before[i] = rest[n]

\* the first position of the card with this id in cards (0 when none)
PositionOf(cards, id) ==
    IF \E i \in 1..Len(cards) : cards[i].id = id
    THEN CHOOSE i \in 1..Len(cards) :
            /\ cards[i].id = id
            /\ \A j \in 1..(i - 1) : cards[j].id # id
    ELSE 0

\* the reorder that the last operation, a prioritize_column, dispatched is
\* the action reduced last
PrioritizeReduced ==
    /\ last.op = "prioritize_column"
    /\ reduced.type = "REORDER_COLUMN"
    /\ reduced.payload = last.dispatch[1].payload

\* pairs (a, b) of positions of the Board the reorder was applied to: two
\* cards of the target column with equal priority, a before b
EqualPriorityPairs ==
    {p \in (1..Len(reduced.before)) \X (1..Len(reduced.before)) :
        /\ p[1] < p[2]
        /\ reduced.before[p[1]].column = last.args.column
        /\ reduced.before[p[2]].column = last.args.column
        /\ reduced.before[p[1]].priority = reduced.before[p[2]].priority
        /\ reduced.before[p[1]].id # reduced.before[p[2]].id}

\* C27: prioritize_column sorts stably.  Two cards of the target column
\* with equal priority, the first before the second on the Board, appear
\* in that order in newOrder and on the Board once the reorder is reduced.
C27_StableSort ==
    PrioritizeReduced
        => \A p \in EqualPriorityPairs :
              LET a == reduced.before[p[1]].id
                  b == reduced.before[p[2]].id
                  ids == Ids(last.result.newOrder)
              IN  /\ (Includes(ids, a) /\ Includes(ids, b))
                        => \E m, n \in 1..Len(ids) : m < n /\ ids[m] = a /\ ids[n] = b
                  /\ (PositionOf(reduced.after, a) > 0 /\ PositionOf(reduced.after, b) > 0)
                        => PositionOf(reduced.after, a) < PositionOf(reduced.after, b)

\* C28: reducing MOVE_CARD changes only the column of the card with the
\* given id: its other fields, its position among the cards and every
\* other card are as before; when no card has the id the cards are
\* unchanged.
C28_MoveFrame ==
    reduced.type = "MOVE_CARD"
        => /\ Len(reduced.after) = Len(reduced.before)
           /\ \A i \in 1..Len(reduced.before) :
                 IF reduced.before[i].id = reduced.payload.cardId
                 THEN /\ reduced.after[i].column = reduced.payload.toColumn
                      /\ DOMAIN reduced.after[i] = DOMAIN reduced.before[i]
                      /\ \A f \in DOMAIN reduced.before[i] \ {"column"} :
                            reduced.after[i][f] = reduced.before[i][f]
                 ELSE reduced.after[i] = reduced.before[i]
           /\ reduced.payload.cardId \notin IdSet(reduced.before)
                 => reduced.after = reduced.before

\* C28 witness: a MOVE_CARD for a card that is not the last of the cards
\* has been committed, and the card has another column than before.
C28_Witness ==
    /\ reduced.type = "MOVE_CARD"
    /\ queue = <<>>
    /\ state.cards = reduced.after
    /\ \E i \in 1..(Len(reduced.before) - 1) :
          /\ reduced.before[i].id = reduced.payload.cardId
          /\ reduced.before[i].column # reduced.payload.toColumn
          /\ reduced.after[i].column = reduced.payload.toColumn

\* C29: DELETE_CARD is idempotent at the reducer.  With an id no card has
\* the cards are unchanged; otherwise the cards with that id are gone and
\* the others keep their content and order; and reducing the same
\* DELETE_CARD once more changes nothing.
C29_DeleteIdempotent ==
    reduced.type = "DELETE_CARD"
        => LET id == reduced.payload.cardId
               again == boardReducer([state EXCEPT !.cards = reduced.after],
                                     [type |-> "DELETE_CARD", payload |-> reduced.payload],
                                     randomUUID(uuids + 1), now)
           IN  /\ id \notin IdSet(reduced.before) => reduced.after = reduced.before
               /\ id \notin IdSet(reduced.after)
               /\ reduced.after = SelectSeq(reduced.before, LAMBDA c : c.id # id)
               /\ again.cards = reduced.after

\* C29 witness: two delete_card calls for the same card both dispatched,
\* and the second DELETE_CARD was reduced on a Board that no longer had
\* the card.
C29_Witness ==
    /\ prev.op = "delete_card" /\ prev.success
    /\ last.op = "delete_card" /\ last.result.success
    /\ prev.args.cardId = last.args.cardId
    /\ reduced.type = "DELETE_CARD"
    /\ reduced.payload = last.dispatch[1].payload
    /\ reduced.payload.cardId \notin IdSet(reduced.before)
    /\ reduced.before # <<>>
    /\ state.cards = reduced.before

\* C30: reducing ADD_CARD, from create_card or from the add-card form,
\* appends exactly one card at the end of the cards and leaves every card
\* that was there unchanged in content and position, so the new card is
\* the last of the cards Board passes to its column.
C30_AddAppends ==
    reduced.type = "ADD_CARD"
        => LET n == Len(reduced.before)
               card == reduced.after[n + 1]
               shown == SelectSeq(reduced.after, LAMBDA c : c.column = card.column)
           IN  /\ Len(reduced.after) = n + 1
               /\ \A i \in 1..n : reduced.after[i] = reduced.before[i]
               /\ card.title = reduced.payload.title
               /\ shown[Len(shown)] = card

\* C30 witness: the add-card form of a column that already showed cards
\* has added a card, and the committed Board shows it below them.
C30_Witness ==
    /\ last.op = "add_card_form"
    /\ reduced.type = "ADD_CARD"
    /\ reduced.payload = last.dispatch[1].payload
    /\ queue = <<>>
    /\ state.cards = reduced.after
    /\ \E i \in 1..Len(reduced.before) : reduced.before[i].column = last.args.column
    /\ state.cards[Len(state.cards)].column = last.args.column
    /\ state.cards[Len(state.cards)].id \notin IdSet(reduced.before)

\* C31: reducing an update that carries labels leaves the target card with
\* exactly the supplied list, whatever labels it had; reducing ADD_LABEL
\* with a label the card does not have appends that one label to the
\* card's list.
C31_LabelsReplaced ==
    /\ (reduced.type = "UPDATE_CARD" /\ Has(reduced.payload.updates, "labels"))
          => \A i \in 1..Len(reduced.before) :
                reduced.before[i].id = reduced.payload.cardId
                    => reduced.after[i].labels = reduced.payload.updates.labels
    /\ reduced.type = "ADD_LABEL"
          => \A i \in 1..Len(reduced.before) :
                (/\ reduced.before[i].id = reduced.payload.cardId
                 /\ ~Includes(reduced.before[i].labels, reduced.payload.label))
                    => reduced.after[i].labels
                          = Append(reduced.before[i].labels, reduced.payload.label)

\* C31 witness: update_card with labels has been committed on a card that
\* had a label the supplied list lacks, and the card has lost it.
C31_Witness ==
    /\ last.op = "update_card"
    /\ Has(last.args, "labels")
    /\ reduced.type = "UPDATE_CARD"
    /\ reduced.payload = last.dispatch[1].payload
    /\ queue = <<>>
    /\ state.cards = reduced.after
    /\ \E i \in 1..Len(reduced.before) :
          /\ reduced.before[i].id = last.args.cardId
          /\ \E n \in 1..Len(reduced.before[i].labels) :
                ~Includes(last.args.labels, reduced.before[i].labels[n])
          /\ state.cards[i].labels = last.args.labels

\* C32: no operation changes columns or columnMeta.  In every reachable
\* Board columns is backlog, todo, in-progress, done, and columnMeta holds
\* the title and color each of them was given.
C32_ColumnsFixed ==
    /\ state.columns = <<"backlog", "todo", "in-progress", "done">>
    /\ state.columnMeta = INITIAL_STATE.columnMeta
    /\ \A i \in 1..Len(state.columns) :
          DOMAIN MetaOf(state, state.columns[i]) = {"title", "color"}

\* C32 witness: a move and then a reorder of a column have been committed,
\* and the cards are no longer in the order of the Board's start.
C32_Witness ==
    /\ prev.op \in {"move_card", "drop"} /\ prev.success
    /\ last.op = "prioritize_column"
    /\ reduced.type = "REORDER_COLUMN"
    /\ queue = <<>>
    /\ ~passive
    /\ state.cards = reduced.after
    /\ reduced.after # reduced.before

Partitions(r, s) ==
    LET n == Len(r.columns)
        sum[i \in 0..n] == IF i = 0 THEN 0 ELSE sum[i - 1] + r.columns[i].cardCount
    IN  /\ n = Len(s.columns)
        /\ \A i \in 1..n :
              LET g == r.columns[i]
                  at == PositionsIn(s.cards, s.columns[i])
              IN  /\ g.column = s.columns[i]
                  /\ g.cardCount = Len(g.cards)
                  /\ Len(g.cards) = Cardinality(at)
                  \* the j-th card of the group is the j-th card of that
                  \* column in the global order
                  /\ \A p \in at :
                        g.cards[Cardinality({q \in at : q <= p})].id = s.cards[p].id
        /\ \A p \in 1..Len(s.cards) :
              Cardinality(ListedUnder(r, s.cards[p].id)) = 1
        /\ r.totalCards = sum[n]

\* C34: get_board, invoked while no dispatch is pending, partitions the
\* cards of the Board: every card is in exactly one column group, each
\* group's cardCount is the length of its cards list, the groups are in
\* columns order with their cards in global order, and totalCards is the
\* sum of the cardCount values.
C34_BoardPartitioned ==
    [][(/\ nops' = nops + 1
        /\ last'.op = "get_board"
        /\ queue = <<>>)
          => Partitions(last'.result, state)]_vars

\* the same of the snapshot the handler read
PartitionOfSnapshot ==
    [][(nops' = nops + 1 /\ last'.op = "get_board")
          => Partitions(last'.result, stateRef)]_vars

\* C35: once the ADD_CARD that create_card dispatched has been reduced, the
\* card of create_card's result is the card the reducer put on the Board:
\* same id, title, description, priority, labels, column and createdAt.
C35_ResultIsStoredCard ==
    (/\ last.op = "create_card"
     /\ reduced.type = "ADD_CARD"
     /\ reduced.payload = last.dispatch[1].payload)
        => last.result.card = reduced.after[Len(reduced.after)]

\* the same but for the timestamp
ResultIsStoredCardButTime ==
    (/\ last.op = "create_card"
     /\ reduced.type = "ADD_CARD"
     /\ reduced.payload = last.dispatch[1].payload)
        => last.result.card
              = [reduced.after[Len(reduced.after)] EXCEPT !.createdAt = last.result.card.createdAt]

\* C36: when add_label returned success with newLabelCount n (and not
\* alreadyExists) and the ADD_LABEL it dispatched has been committed, the
\* target card is on the Board with exactly n labels.
C36_LabelCountCommitted ==
    (/\ last.op = "add_label"
     /\ last.result.success
     /\ Has(last.result, "newLabelCount")
     /\ reduced.type = "ADD_LABEL"
     /\ reduced.payload = last.dispatch[1].payload
     /\ queue = <<>>
     /\ state.cards = reduced.after)
        => \E i \in 1..Len(state.cards) :
              /\ state.cards[i].id = last.args.cardId
              /\ Len(state.cards[i].labels) = last.result.newLabelCount

\* C37: prioritize_column is idempotent.  When it is invoked for a column
\* right after an invocation for the same column, the second call returns
\* the newOrder the first returned; and when the REORDER_COLUMN of the
\* second call is reduced, the Board is left as the first call's reorder
\* made it (same cards, same global order).
C37_PrioritizeIdempotent ==
    [][/\ (/\ nops' = nops + 1
           /\ last.op = "prioritize_column"
           /\ last'.op = "prioritize_column"
           /\ last'.args = last.args)
             => last'.result.newOrder = last.result.newOrder
       /\ (/\ nops' = nops
           /\ queue # <<>>
           /\ queue' = <<>>
           /\ prev.op = "prioritize_column"
           /\ last.op = "prioritize_column"
           /\ prev.args = last.args
           /\ queue[Len(queue)] = last.dispatch[1])
             => reduced'.after = reduced'.before]_vars

\* nothing is waiting to be reduced, no effect is waiting to run,
\* stateRef.current is the committed Board and localStorage holds the
\* serialization of its cards
Quiescent ==
    /\ queue = <<>>
    /\ ~passive
    /\ stateRef = state
    /\ storage = JSON_stringify(state.cards)

\* C38: quiescence.  Under fair scheduling of React's render and effect
\* steps, once no further operation is invoked the system reaches, and
\* then stays in, a state in which stateRef.current is the committed Board
\* and the durable store holds the serialization of the committed cards.
C38_Quiescence == <>[]Quiescent

\* C38 witness: after two operations whose dispatches changed the Board,
\* everything has settled on the Board they left.
C38_Witness ==
    /\ nops = MaxOps
    /\ prev.op \in Tools /\ prev.success
    /\ last.op \in Tools /\ last.dispatch # <<>>
    /\ reduced.type # "none"
    /\ state.cards = reduced.after
    /\ reduced.after # reduced.before
    /\ state.cards # SEED_CARDS
    /\ Quiescent

=============================================================================
